---- MODULE Spec2Model ----
(***************************************************************************)
(* A model of vcell (src/src/lib.rs): the volatile cell, the BME alias     *)
(* transform (BmeOperation::bits / wrap_pointer) and the bit-band alias    *)
(* transform (VolatileCell::bitband_pointer / set_bit).                    *)
(*                                                                         *)
(* A machine word (usize, u32, a value of T) is the set of the positions   *)
(* of its set bits, bit 0 being the least significant one: TLC's integers  *)
(* stop at 2^31 - 1, and the addresses and values of the program use all   *)
(* 32 bits.  Small integers (u8 bit numbers and counts) stay integers.     *)
(***************************************************************************)
EXTENDS Integers, FiniteSets, Sequences, TLC

VARIABLES
    T,        \* the type parameter of VolatileCell<T>: "u8", "u16" or "u32"
    addr,     \* self.value.get(): the address of the cell, fixed at construction
    value,    \* the content of the cell's memory
    lastSet,  \* history: the value the cell was given last, and by "new" or by "set"
    aliasOps, \* history: how many calls went through an alias address so far
    last      \* the call made last: its arguments, its accesses and its outcome

vars == <<T, addr, value, lastSet, aliasOps, last>>

---------------------------------------------------------------------------
(* Bounds of the exploration *)

\* bit indices 0..MaxBit are passed to bitband_pointer and set_bit
MaxBit == 33
\* first_bit runs over 0..MaxFirstBit
MaxFirstBit == 33
\* bit_count runs over 0..MaxBitCount
MaxBitCount == 18
\* addresses 0..AddrSpan away from each boundary of a window are tried
AddrSpan == 3
\* calls through an alias address per run of the cell program
MaxAliasOps == 1

---------------------------------------------------------------------------
(* Machine words *)

\* the width of usize and of u32 on the target
PtrBits == 32

WordBits == 0 .. (PtrBits - 1)

\* the word of a natural number below 2^31
RECURSIVE ToBits(_)
ToBits(n) ==
    IF n = 0 THEN {}
    ELSE {i + 1 : i \in ToBits(n \div 2)} \cup (IF n % 2 = 1 THEN {0} ELSE {})

\* the 32-bit literal 0xHHHHLLLL, from its two 16-bit halves
Word(hi, lo) == {i + 16 : i \in ToBits(hi)} \cup ToBits(lo)

\* x & y
BitAnd(x, y) == x \cap y

\* x | y
BitOr(x, y) == x \cup y

\* x ^ y
BitXor(x, y) == (x \ y) \cup (y \ x)

\* x << n on a 32-bit word: the bits shifted past bit 31 are lost
Shl(x, n) == {i + n : i \in x} \cap WordBits

\* x < y, unsigned
Lt(x, y) == \E i \in y \ x : \A j \in WordBits : j > i => ((j \in x) <=> (j \in y))

\* x > y, unsigned
Gt(x, y) == Lt(y, x)

\* size_of::<T>() in bytes
size_of(t) == CASE t = "u8" -> 1 [] t = "u16" -> 2 [] t = "u32" -> 4

\* the bits of a value of type t
TypeBits(t) == 0 .. (size_of(t) * 8 - 1)

\* !x on a value of type t
Not(t, x) == TypeBits(t) \ x

---------------------------------------------------------------------------
(* Outcomes of a function that may panic *)

Ok(p) == [fault |-> "none", val |-> p]

Panic(kind) == [fault |-> kind, val |-> {}]

---------------------------------------------------------------------------
(* BmeOperation *)

OpAnd == [kind |-> "And", first_bit |-> 0, bit_count |-> 0]
OpOr == [kind |-> "Or", first_bit |-> 0, bit_count |-> 0]
OpXor == [kind |-> "Xor", first_bit |-> 0, bit_count |-> 0]
SetField(f, n) == [kind |-> "SetField", first_bit |-> f, bit_count |-> n]

\* the encodings of the operations: 0x04000000, 0x08000000, 0x0c000000 and
\* 0x10000000
AndBits == Word(\h0400, \h0000)
OrBits == Word(\h0800, \h0000)
XorBits == Word(\h0c00, \h0000)
SetFieldBits == Word(\h1000, \h0000)

\* the masks of first_bit and of bit_count - 1: 0x1f and 0xf
FirstBitMask == ToBits(\h1f)
BitCountMask == ToBits(\hf)

\* the address masks of SetField and of the other operations: 0x6007ffff and
\* 0x600fffff
SetFieldAddrMask == Word(\h6007, \hffff)
LogicAddrMask == Word(\h600f, \hffff)

\* bits with the range of bit_count one too wide
bits_count_17(op) ==
    CASE op.kind = "And" -> Ok(AndBits)
      [] op.kind = "Or" -> Ok(OrBits)
      [] op.kind = "Xor" -> Ok(XorBits)
      [] op.kind = "SetField" ->
            IF op.bit_count = 0 \/ op.bit_count > 17
            THEN Panic("bit_count")
            ELSE IF op.first_bit > 31
            THEN Panic("first_bit")
            ELSE Ok(BitOr(BitOr(SetFieldBits,
                                Shl(BitAnd(ToBits(op.first_bit), FirstBitMask), 23)),
                          Shl(BitAnd(ToBits(op.bit_count - 1), BitCountMask), 19)))

\* bits with the bit_count field one bit too low
bits_shift_18(op) ==
    CASE op.kind = "And" -> Ok(AndBits)
      [] op.kind = "Or" -> Ok(OrBits)
      [] op.kind = "Xor" -> Ok(XorBits)
      [] op.kind = "SetField" ->
            IF op.bit_count = 0 \/ op.bit_count > 16
            THEN Panic("bit_count")
            ELSE IF op.first_bit > 31
            THEN Panic("first_bit")
            ELSE Ok(BitOr(BitOr(SetFieldBits,
                                Shl(BitAnd(ToBits(op.first_bit), FirstBitMask), 23)),
                          Shl(BitAnd(ToBits(op.bit_count - 1), BitCountMask), 18)))

\* BmeOperation::bits
bits(op) ==
    CASE op.kind = "And" -> Ok(AndBits)
      [] op.kind = "Or" -> Ok(OrBits)
      [] op.kind = "Xor" -> Ok(XorBits)
      [] op.kind = "SetField" ->
            IF op.bit_count = 0 \/ op.bit_count > 16
            THEN Panic("bit_count")
            ELSE IF op.first_bit > 31
            THEN Panic("first_bit")
            ELSE Ok(BitOr(BitOr(SetFieldBits,
                                Shl(BitAnd(ToBits(op.first_bit), FirstBitMask), 23)),
                          Shl(BitAnd(ToBits(op.bit_count - 1), BitCountMask), 19)))

\* wrap_pointer with the wider mask for every operation
wrap_pointer_one_mask(op, ptr) ==
    IF BitAnd(ptr, LogicAddrMask) # ptr
    THEN Panic("address")
    ELSE LET b == bits(op)
         IN  IF b.fault # "none" THEN b ELSE Ok(BitOr(ptr, b.val))

\* BmeOperation::wrap_pointer
wrap_pointer(op, ptr) ==
    LET mask == IF op.kind = "SetField" THEN SetFieldAddrMask ELSE LogicAddrMask
    IN  IF BitAnd(ptr, mask) # ptr
        THEN Panic("address")
        ELSE LET b == bits(op)
             IN  IF b.fault # "none" THEN b ELSE Ok(BitOr(ptr, b.val))

---------------------------------------------------------------------------
(* Bit-banding *)

\* the ends of the two bit-banded regions: 0x20000000, 0x200fffff,
\* 0x40000000 and 0x400fffff
SramLow == Word(\h2000, \h0000)
SramHigh == Word(\h200f, \hffff)
PeriphLow == Word(\h4000, \h0000)
PeriphHigh == Word(\h400f, \hffff)

\* the masks of the offset in a region, of the bit number and of the region,
\* and the offset of the alias region: 0xfffff, 0x1f, 0xf0000000, 0x02000000
OffsetMask == Word(\h000f, \hffff)
BitMask == ToBits(\h1f)
RegionMask == Word(\hf000, \h0000)
AliasBase == Word(\h0200, \h0000)

\* bitband_pointer with the bit number not shifted
bitband_pointer_unshifted(t, ptr, bit_to_modify) ==
    IF \/ Lt(ptr, SramLow)
       \/ (Gt(ptr, SramHigh) /\ Lt(ptr, PeriphLow))
       \/ Gt(ptr, PeriphHigh)
    THEN Panic("region")
    ELSE IF bit_to_modify > size_of(t) * 8
    THEN Panic("bit")
    ELSE LET bb_offset ==
                 BitOr(Shl(BitAnd(ptr, OffsetMask), 5),
                       BitAnd(ToBits(bit_to_modify), BitMask))
         IN  Ok(BitOr(BitOr(BitAnd(ptr, RegionMask), AliasBase), bb_offset))

\* bitband_pointer with the last address of the first window left out
bitband_pointer_open(t, ptr, bit_to_modify) ==
    IF \/ Lt(ptr, SramLow)
       \/ (~Lt(ptr, SramHigh) /\ Lt(ptr, PeriphLow))
       \/ Gt(ptr, PeriphHigh)
    THEN Panic("region")
    ELSE IF bit_to_modify > size_of(t) * 8
    THEN Panic("bit")
    ELSE LET bb_offset ==
                 BitOr(Shl(BitAnd(ptr, OffsetMask), 5),
                       Shl(BitAnd(ToBits(bit_to_modify), BitMask), 2))
         IN  Ok(BitOr(BitOr(BitAnd(ptr, RegionMask), AliasBase), bb_offset))

\* VolatileCell::<T>::bitband_pointer
bitband_pointer(t, ptr, bit_to_modify) ==
    IF \/ Lt(ptr, SramLow)
       \/ (Gt(ptr, SramHigh) /\ Lt(ptr, PeriphLow))
       \/ Gt(ptr, PeriphHigh)
    THEN Panic("region")
    ELSE IF bit_to_modify > size_of(t) * 8
    THEN Panic("bit")
    ELSE LET bb_offset ==
                 BitOr(Shl(BitAnd(ptr, OffsetMask), 5),
                       Shl(BitAnd(ToBits(bit_to_modify), BitMask), 2))
         IN  Ok(BitOr(BitOr(BitAnd(ptr, RegionMask), AliasBase), bb_offset))

---------------------------------------------------------------------------
(* The hardware behind the alias addresses, as the documentation of        *)
(* set_field, set_bits, clear_bits, invert_bits and set_bit describes it   *)

\* x >> n
Shr(x, n) == {i - n : i \in {j \in x : j >= n}}

\* the number a word of at most 31 bits stands for
RECURSIVE Val(_)
Val(x) ==
    IF x = {} THEN 0
    ELSE LET i == CHOOSE j \in x : TRUE IN 2 ^ i + Val(x \ {i})

\* the address bits below the alignment of a value of type t: size_of - 1
LowBits(t) == ToBits(size_of(t) - 1)

\* whether a store at p is decoded by the bit-manipulation engine
IsBmeAlias(p) == p \cap {26, 27, 28} # {} /\ p \cap {25, 31} = {}

\* the operation a BME alias address encodes
BmeDecode(p) ==
    IF 28 \in p
    THEN SetField(Val(Shr(p \cap (23 .. 27), 23)), Val(Shr(p \cap (19 .. 22), 19)) + 1)
    ELSE IF p \cap {26, 27} = {26} THEN OpAnd
    ELSE IF p \cap {26, 27} = {27} THEN OpOr
    ELSE OpXor

\* the address a BME alias address stands for
BmeTarget(p) ==
    IF 28 \in p THEN BitAnd(p, SetFieldAddrMask) ELSE BitAnd(p, LogicAddrMask)

\* what the engine leaves in a target of type t that held old, on a store of src
BmeCombine(t, op, old, src) ==
    CASE op.kind = "And" -> BitAnd(old, src)
      [] op.kind = "Or" -> BitOr(old, src)
      [] op.kind = "Xor" -> BitXor(old, src)
      [] op.kind = "SetField" ->
            LET field == {i \in TypeBits(t) :
                            op.first_bit <= i /\ i < op.first_bit + op.bit_count}
            IN  (old \ field) \cup (src \cap field)

\* whether a store at p lands in a bit-band alias region
IsBitbandAlias(p) == p \cap (25 .. 31) \in {{25, 29}, {25, 30}}

\* the byte a bit-band alias word stands for: each bit of the region is one word
BitbandByte(p) == BitOr(BitAnd(p, RegionMask), Shr(p \cap (5 .. 24), 5))

\* the bit of that byte
BitbandBit(p) == Val(Shr(p \cap (2 .. 4), 2))

\* what a store of the word src at the bit-band alias p leaves in a cell of
\* type t at address a that held old
BitbandCombine(t, a, p, old, src) ==
    IF BitbandByte(p) \ LowBits(t) # a
    THEN old
    ELSE LET i == 8 * Val(BitbandByte(p) \cap LowBits(t)) + BitbandBit(p)
         IN  IF 0 \in src THEN old \cup {i} ELSE old \ {i}

\* ptr::write_volatile(dst, src): the content of the cell after the store
write_volatile(dst, src) ==
    IF dst = addr THEN src
    ELSE IF IsBmeAlias(dst)
    THEN IF BmeTarget(dst) = addr
         THEN BmeCombine(T, BmeDecode(dst), value, src)
         ELSE value
    ELSE IF IsBitbandAlias(dst)
    THEN BitbandCombine(T, addr, dst, value, src)
    ELSE value

\* ptr::read_volatile(src) of the cell's own address
read_volatile(src) == value

---------------------------------------------------------------------------
(* Inputs *)

Types == {"u8", "u16", "u32"}

\* values of type t: zero, one, two, all ones, and a pattern with the top bit
Vals(t) ==
    {{}, {0}, {1}, TypeBits(t),
     {i \in TypeBits(t) : i % 3 = 0} \cup {size_of(t) * 8 - 1}}

\* whether a is aligned to t
Aligned(t, a) == a \cap LowBits(t) = {}

\* where a cell may live: in and around the bit-band windows and the BME masks
CellAddrs(t) ==
    {a \in {Word(\h0000, \h0100), Word(\h1fff, \hfffc), Word(\h2000, \h0000),
            Word(\h2000, \h0001), Word(\h2000, \h0006), Word(\h2008, \h0000),
            Word(\h400f, \hfffc), Word(\h400f, \hffff), Word(\h4010, \h0000),
            Word(\he000, \he100)} : Aligned(t, a)}

\* bit numbers given to set_bit: around the widths of u8, u16 and u32
CellBits == {0, 7, 8, 9, 16, 31, 32, 33}

\* values given to set_bit: zero, one, two and all ones
BitVals(t) == {{}, {0}, {1}, TypeBits(t)}

\* first_bit and bit_count given to set_field: the ends of their ranges
CellFirstBits == {0, 3, 31, 32}
CellBitCounts == {0, 1, 16, 17}

\* field values given to set_field
FieldVals(t) == {TypeBits(t), {i \in TypeBits(t) : i % 3 = 0}}

---------------------------------------------------------------------------
(* The cell program: new, then calls on the cell until one panics *)

\* no BME operation takes part in a call
NoOp == [kind |-> "none", first_bit |-> 0, bit_count |-> 0]

\* the record of a call: the function, the BmeOperation it uses, the pointer
\* and the bit number it is given, its operand, the content of the cell
\* before it, and what it did: its panic, the alias address it computed, the
\* value it returned, its volatile reads and its volatile writes in order
Call(op, bme, ptr, bit, arg) ==
    [op |-> op, bme |-> bme, ptr |-> ptr, bit |-> bit, arg |-> arg,
     old |-> value, fault |-> "none", alias |-> {}, ret |-> {},
     reads |-> 0, writes |-> <<>>]

\* a panic unwinds out of the call: the program makes no further call
Running == last.fault = "none"

\* VolatileCell::new
Init ==
    /\ T \in Types
    /\ addr \in CellAddrs(T)
    /\ value \in Vals(T)
    /\ lastSet = [by |-> "new", val |-> value]
    /\ aliasOps = 0
    /\ last = Call("new", NoOp, addr, 0, value)

\* VolatileCell::get
get ==
    /\ Running
    /\ last' = [Call("get", NoOp, addr, 0, {}) EXCEPT
                    !.ret = read_volatile(addr), !.reads = 1]
    /\ UNCHANGED <<T, addr, value, lastSet, aliasOps>>

\* set with its store elided
set_elided(v) ==
    /\ Running
    /\ lastSet' = [by |-> "set", val |-> v]
    /\ last' = [Call("set", NoOp, addr, 0, v) EXCEPT
                    !.writes = <<[at |-> addr, val |-> v]>>]
    /\ UNCHANGED <<T, addr, value, aliasOps>>

\* VolatileCell::set
set(v) ==
    /\ Running
    /\ value' = write_volatile(addr, v)
    /\ lastSet' = [by |-> "set", val |-> v]
    /\ last' = [Call("set", NoOp, addr, 0, v) EXCEPT
                    !.writes = <<[at |-> addr, val |-> v]>>]
    /\ UNCHANGED <<T, addr, aliasOps>>

\* a call that stores src through the alias address p, or panics as p did
Through(call, p, src) ==
    /\ Running
    /\ aliasOps < MaxAliasOps
    /\ aliasOps' = aliasOps + 1
    /\ IF p.fault # "none"
       THEN /\ last' = [call EXCEPT !.fault = p.fault]
            /\ UNCHANGED value
       ELSE /\ value' = write_volatile(p.val, src)
            /\ last' = [call EXCEPT !.alias = p.val,
                                    !.writes = <<[at |-> p.val, val |-> src]>>]
    /\ UNCHANGED <<T, addr, lastSet>>

\* VolatileCell::set_field
set_field(first_bit, bit_count, v) ==
    Through(Call("set_field", SetField(first_bit, bit_count), addr, 0, v),
            wrap_pointer(SetField(first_bit, bit_count), addr), v)

\* VolatileCell::set_bits
set_bits(bits_to_set) ==
    Through(Call("set_bits", OpOr, addr, 0, bits_to_set),
            wrap_pointer(OpOr, addr), bits_to_set)

\* clear_bits storing its operand as it is
clear_bits_uncomplemented(bits_to_clear) ==
    Through(Call("clear_bits", OpAnd, addr, 0, bits_to_clear),
            wrap_pointer(OpAnd, addr), bits_to_clear)

\* VolatileCell::clear_bits
clear_bits(bits_to_clear) ==
    Through(Call("clear_bits", OpAnd, addr, 0, bits_to_clear),
            wrap_pointer(OpAnd, addr), Not(T, bits_to_clear))

\* VolatileCell::invert_bits
invert_bits(bits_to_invert) ==
    Through(Call("invert_bits", OpXor, addr, 0, bits_to_invert),
            wrap_pointer(OpXor, addr), bits_to_invert)

\* the largest value set_bit accepts
One == ToBits(1)

\* set_bit without the check of its value
set_bit_unchecked(bit_to_set, v) ==
    Through(Call("set_bit", NoOp, addr, bit_to_set, v),
            bitband_pointer(T, addr, bit_to_set), v)

\* VolatileCell::set_bit
set_bit(bit_to_set, v) ==
    Through(Call("set_bit", NoOp, addr, bit_to_set, v),
            IF Gt(v, One)
            THEN Panic("value")
            ELSE bitband_pointer(T, addr, bit_to_set),
            v)

Next ==
    \/ get
    \/ \E v \in Vals(T) : set(v)
    \/ \E f \in CellFirstBits, n \in CellBitCounts, v \in FieldVals(T) : set_field(f, n, v)
    \/ \E v \in Vals(T) : set_bits(v)
    \/ \E v \in Vals(T) : clear_bits(v)
    \/ \E v \in Vals(T) : invert_bits(v)
    \/ \E b \in CellBits, v \in BitVals(T) : set_bit(b, v)

Spec == Init /\ [][Next]_vars

---------------------------------------------------------------------------
(* bitband_pointer called on raw pointers, as the tests of test_bb call it *)

\* every u8 beyond MaxBit is tried through its largest value
U8Max == 255

Bits == (0 .. MaxBit) \cup {U8Max}

\* pointers at and around the ends of the two windows, at the ends of the
\* address space and inside the windows
BitbandAddrs ==
    UNION {{Word(\h0000, k), Word(\h1fff, \hffff - k),
            Word(\h2000, k), Word(\h2008, k), Word(\h200f, \hffff - k),
            Word(\h2010, k), Word(\h3fff, \hffff - k),
            Word(\h4000, k), Word(\h4007, \hffff - k), Word(\h400f, \hffff - k),
            Word(\h4010, k), Word(\hffff, \hffff - k)} : k \in 0 .. AddrSpan}

\* a run makes one call, as each test does
Fresh == last.op = "none"

\* no cell is constructed: T is the type the pointer is cast to
InitBitband ==
    /\ T \in Types
    /\ addr = {}
    /\ value = {}
    /\ lastSet = [by |-> "new", val |-> {}]
    /\ aliasOps = 0
    /\ last = Call("none", NoOp, {}, 0, {})

\* VolatileCell::<T>::bitband_pointer(ptr, bit)
call_bitband_pointer(ptr, bit) ==
    /\ LET p == bitband_pointer(T, ptr, bit)
       IN  last' = [Call("bitband_pointer", NoOp, ptr, bit, {}) EXCEPT
                        !.fault = p.fault, !.alias = p.val]
    /\ UNCHANGED <<T, addr, value, lastSet, aliasOps>>

NextBitband ==
    Fresh /\ \E ptr \in BitbandAddrs, bit \in Bits : call_bitband_pointer(ptr, bit)

SpecBitband == InitBitband /\ [][NextBitband]_vars

---------------------------------------------------------------------------
(* bits and wrap_pointer called on their own, as the tests of test_bme do *)

\* a bit_count far beyond the range, as test_set_field_too_many_bits gives
FarCount == 42

Ops ==
    {OpAnd, OpOr, OpXor} \cup
    {SetField(f, n) : f \in (0 .. MaxFirstBit) \cup {U8Max},
                      n \in (0 .. MaxBitCount) \cup {FarCount, U8Max}}

\* pointers inside the masks, and each of them with one more bit set
BmeAddrs ==
    {b \cup e : b \in {Word(\h0000, \h0000), Word(\h4000, \h1234), Word(\h6007, \hffff)},
                e \in {{}} \cup {{k} : k \in WordBits}}

InitBme ==
    /\ T = "u32"
    /\ addr = {}
    /\ value = {}
    /\ lastSet = [by |-> "new", val |-> {}]
    /\ aliasOps = 0
    /\ last = Call("none", NoOp, {}, 0, {})

\* op.bits()
call_bits(op) ==
    /\ LET b == bits(op)
       IN  last' = [Call("bits", op, {}, 0, {}) EXCEPT !.fault = b.fault, !.ret = b.val]
    /\ UNCHANGED <<T, addr, value, lastSet, aliasOps>>

\* op.wrap_pointer(ptr)
call_wrap_pointer(op, ptr) ==
    /\ LET p == wrap_pointer(op, ptr)
       IN  last' = [Call("wrap_pointer", op, ptr, 0, {}) EXCEPT
                        !.fault = p.fault, !.alias = p.val]
    /\ UNCHANGED <<T, addr, value, lastSet, aliasOps>>

NextBme ==
    \/ Fresh /\ \E op \in Ops : call_bits(op)
    \/ Fresh /\ \E op \in Ops, ptr \in BmeAddrs : call_wrap_pointer(op, ptr)

SpecBme == InitBme /\ [][NextBme]_vars

---------------------------------------------------------------------------
(* The vocabulary of the properties, stated on the bits of the words and   *)
(* on numbers rather than through the operators of the transforms          *)

\* the bit-width of T
Width == size_of(T) * 8

\* a lies in [0x20000000, 0x200FFFFF] or in [0x40000000, 0x400FFFFF]
InWindow(a) == a \ (0 .. 19) \in {{29}, {30}}

\* the parameters of op are in their ranges
ValidParams(op) ==
    op.kind = "SetField" => (op.first_bit \in 0 .. 31 /\ op.bit_count \in 1 .. 16)

\* the bits an address may have set for op: 0x6007FFFF or 0x600FFFFF
Allowed(op) ==
    IF op.kind = "SetField" THEN (0 .. 18) \cup {29, 30} ELSE (0 .. 19) \cup {29, 30}

\* the encoding of op, as a number
Encoding(op) ==
    CASE op.kind = "And" -> 4 * 2 ^ 24
      [] op.kind = "Or" -> 8 * 2 ^ 24
      [] op.kind = "Xor" -> 12 * 2 ^ 24
      [] op.kind = "SetField" ->
            2 ^ 28 + (op.first_bit % 32) * 2 ^ 23 + ((op.bit_count - 1) % 16) * 2 ^ 19

\* the call made last did nothing to the memory
NoWrite == last.writes = <<>> /\ value = last.old

---------------------------------------------------------------------------
(* Properties *)

\* C1: bitband_pointer faults on every bit index greater than or equal to the
\* bit-width of T, for every address in a window; only indices below the
\* bit-width produce an alias address.
C1_BitIndexAtLeastWidthFaults ==
    (last.op = "bitband_pointer" /\ InWindow(last.ptr) /\ last.bit >= Width)
        => last.fault # "none"

\* C2: for every address in a window, aligned or not, and every bit index in
\* [0, 31] on a 32-bit target, bitband_pointer computes an alias address
\* whose low two bits are zero.
C2_AliasWordAligned ==
    (last.op = "bitband_pointer" /\ T = "u32" /\ InWindow(last.ptr) /\ last.bit \in 0 .. 31)
        => (last.fault = "none" /\ last.alias # {} /\ last.alias \cap {0, 1} = {})

C2_Witness ==
    /\ last.op = "bitband_pointer" /\ T = "u32"
    /\ last.ptr = Word(\h200f, \hffff) /\ last.bit = 31
    /\ last.fault = "none" /\ last.alias \cap {0, 1} = {}

\* C3: with a bit index below the bit-width, bitband_pointer faults if and
\* only if the address lies outside both windows; 0x1FFFFFFF, 0x20100000
\* through 0x3FFFFFFF and 0x40100000 and above fault, the four end-points of
\* the windows do not.
C3_FaultIffOutsideWindows ==
    (last.op = "bitband_pointer" /\ last.bit < Width)
        => /\ (last.fault # "none") <=> ~InWindow(last.ptr)
           /\ last.ptr \in {Word(\h1fff, \hffff), Word(\h2010, \h0000),
                            Word(\h3fff, \hffff), Word(\h4010, \h0000),
                            Word(\hffff, \hffff)} => last.fault = "region"
           /\ last.ptr \in {Word(\h2000, \h0000), Word(\h200f, \hffff),
                            Word(\h4000, \h0000), Word(\h400f, \hffff)}
                  => last.fault = "none"

C3_Witness ==
    /\ last.op = "bitband_pointer" /\ last.bit < Width
    /\ last.ptr = Word(\h200f, \hffff)
    /\ last.fault = "none"

\* C4: for an operation with valid parameters, wrap_pointer faults on an
\* address with a bit set outside the mask of the operation (0x6007FFFF for
\* SetField, 0x600FFFFF for And, Or and Xor), and on an address within the
\* mask it yields address | encoding, the encoding being 0x04000000,
\* 0x08000000, 0x0C000000 or
\* 0x10000000 | ((first_bit & 0x1F) << 23) | (((bit_count - 1) & 0xF) << 19).
C4_MaskedAliasIsAddressOrEncoding ==
    (last.op = "wrap_pointer" /\ ValidParams(last.bme))
        => IF last.ptr \subseteq Allowed(last.bme)
           THEN /\ last.fault = "none"
                /\ last.alias = last.ptr \cup ToBits(Encoding(last.bme))
           ELSE last.fault # "none" /\ last.alias = {}

C4_Witness ==
    /\ last.op = "wrap_pointer" /\ last.bme = SetField(31, 16)
    /\ last.ptr = Word(\h6007, \hffff)
    /\ last.fault = "none" /\ last.alias = (0 .. 30)

\* C5, as stated: with a bit_count outside [1, 16] or a first_bit outside
\* [0, 31], set_field faults for every address, the fault is the one of the
\* parameter, raised before the address is validated, and no write is issued.
C5_ParameterFaultFirst ==
    (last.op = "set_field" /\ ~ValidParams(last.bme))
        => (last.fault \in {"bit_count", "first_bit"} /\ last.alias = {} /\ NoWrite)

\* C5, amended: with a bit_count outside [1, 16] or a first_bit outside
\* [0, 31], set_field faults for every address before an alias address is
\* computed, and no write is issued; the address is validated first, so the
\* fault is the one of the address when the address has a bit outside
\* 0x6007FFFF, and the one of the parameter otherwise (of bit_count when both
\* parameters are out of range).
C5_ParameterFaultAfterAddress ==
    (last.op = "set_field" /\ ~ValidParams(last.bme))
        => /\ last.alias = {} /\ NoWrite
           /\ last.fault =
                IF ~(last.ptr \subseteq Allowed(last.bme)) THEN "address"
                ELSE IF last.bme.bit_count \notin 1 .. 16 THEN "bit_count"
                ELSE "first_bit"

C5_Witness ==
    /\ last.op = "set_field" /\ last.bme.bit_count = 17
    /\ last.ptr \subseteq Allowed(last.bme)
    /\ last.fault = "bit_count" /\ NoWrite

\* C6: for first_bit in [0, 31] and bit_count in [1, 16], the encoding of
\* SetField masked with 0xF007FFFF is 0x10000000.
C6_SetFieldMarker ==
    (/\ last.op = "bits" /\ last.bme.kind = "SetField"
     /\ last.bme.first_bit \in 0 .. 31 /\ last.bme.bit_count \in 1 .. 16)
        => /\ last.fault = "none"
           /\ last.ret \cap ((0 .. 18) \cup (28 .. 31)) = {28}

C6_Witness ==
    /\ last.op = "bits" /\ last.bme = SetField(31, 16)
    /\ last.fault = "none" /\ last.ret = (19 .. 28)

\* C7: after new(v0) and any sequence of set and get, a get returns the
\* value of the most recent set, or v0 if there has been none; a get does
\* one read, no write, and leaves the stored value as it was; a set does one
\* write, of its argument at the address of the cell, and no read.
C7_GetReturnsLastSet ==
    /\ (last.op = "get" /\ aliasOps = 0) => last.ret = lastSet.val
    /\ last.op = "get" => (last.reads = 1 /\ last.ret = last.old /\ NoWrite)
    /\ last.op = "set"
          => /\ last.reads = 0
             /\ last.writes = <<[at |-> addr, val |-> last.arg]>>
             /\ (aliasOps = 0 => value = last.arg)

C7_Witness ==
    /\ last.op = "get" /\ aliasOps = 0 /\ lastSet.by = "set"
    /\ last.ret = TypeBits(T) /\ T = "u32"

\* C8: set_bit faults on every value other than 0 and 1, for every address
\* and bit index, without a write; with a value of 0 or 1, an address in a
\* window and a bit index below the bit-width it issues one write, of that
\* value, at the alias address bitband_pointer computes, and none at the
\* address of the cell.
C8_SetBitValue ==
    last.op = "set_bit"
        => /\ last.arg \notin {{}, {0}} => (last.fault = "value" /\ NoWrite)
           /\ (last.arg \in {{}, {0}} /\ InWindow(last.ptr) /\ last.bit < Width)
                  => /\ last.fault = "none"
                     /\ last.alias = bitband_pointer(T, addr, last.bit).val
                     /\ last.writes = <<[at |-> last.alias, val |-> last.arg]>>
                     /\ last.alias # addr

C8_Witness ==
    /\ last.op = "set_bit" /\ last.arg = {0} /\ last.bit = 7
    /\ last.fault = "none" /\ Len(last.writes) = 1
    /\ value = last.old \cup {7} /\ 7 \notin last.old

\* C9: set_bits(b), clear_bits(b), invert_bits(b) and set_field(f, n, v)
\* each issue one write, at address | encoding of Or, And, Xor and
\* SetField(f, n), of b, the complement of b, b and v, and issue no write when
\* the validation faults; with the hardware combining the operand into the
\* target, the target becomes old | b, old & ~b and old ^ b.
C9_DerivedOperations ==
    last.op \in {"set_bits", "clear_bits", "invert_bits", "set_field"}
        => IF ValidParams(last.bme) /\ last.ptr \subseteq Allowed(last.bme)
           THEN /\ last.fault = "none"
                /\ last.alias = addr \cup ToBits(Encoding(last.bme))
                /\ last.writes =
                     <<[at |-> last.alias,
                        val |-> IF last.op = "clear_bits"
                                THEN TypeBits(T) \ last.arg
                                ELSE last.arg]>>
                /\ last.op = "set_bits" => value = last.old \cup last.arg
                /\ last.op = "clear_bits" => value = last.old \ last.arg
                /\ last.op = "invert_bits"
                      => value = (last.old \cup last.arg) \ (last.old \cap last.arg)
           ELSE last.fault # "none" /\ last.alias = {} /\ NoWrite

C9_Witness ==
    /\ last.op = "clear_bits" /\ last.fault = "none"
    /\ last.arg \notin {{}, TypeBits(T)}
    /\ value = last.old \ last.arg /\ value # last.old

\* C10: for every T, every address in a window that is aligned to T and
\* every bit index the range check accepts, the shifted bit index shares no
\* bit with the shifted offset of the address, the alias address is
\* (addr & 0xF0000000) + 0x02000000 + 32 * (addr & 0xFFFFF) + 4 * bit, and no
\* other accepted pair of an aligned address and a bit index has the same
\* alias address.
C10_OffsetComposition ==
    (last.op = "bitband_pointer" /\ last.fault = "none" /\ Aligned(T, last.ptr))
        => /\ {i + 2 : i \in ToBits(last.bit % 32)} \cap
                  {i + 5 : i \in last.ptr \cap (0 .. 19)} = {}
           /\ Val(last.alias) =
                  Val(last.ptr \cap (28 .. 31)) + 2 ^ 25
                      + 32 * Val(last.ptr \cap (0 .. 19)) + 4 * last.bit
           /\ \A a \in BitbandAddrs, b \in Bits :
                  (/\ Aligned(T, a)
                   /\ bitband_pointer(T, a, b).fault = "none"
                   /\ bitband_pointer(T, a, b).val = last.alias)
                      => (a = last.ptr /\ b = last.bit)

====
